---- MODULE Spec2Model ----
(***************************************************************************)
(* A model of the os-simulator kernel: the CPU execution engine            *)
(* (src/cpu/cpu.py), the kernel's interrupt / exception dispatch and its   *)
(* dispatch loop (src/kernel/kernel.py, the class body as Python binds it: *)
(* a method defined twice keeps its second definition), the scheduler, the *)
(* process abstraction (src/process/process.py) and the tick source        *)
(* (src/clock/clock.py).                                                   *)
(*                                                                         *)
(* Threads.  The dispatch loop runs on the main thread; every tick after   *)
(* the first runs ClockDevice._send_interrupt on a threading.Timer thread. *)
(* The code takes no lock, so a tick handler may run between any two       *)
(* statements of the loop.  The model interleaves at the grain of the      *)
(* loop's statements: fetching (get_next_instruction), executing           *)
(* (execute_instruction with the exception handler it calls, and then its  *)
(* last statement, the pc increment, as a step of its own), terminating a  *)
(* completed process, scheduling when idle; a tick handler is one step.    *)
(*                                                                         *)
(* Memory.  The memory manager (src/memory/memory.py) is not wired to the  *)
(* kernel; its operations are modelled on a Memory object of its own, with *)
(* frames of PageSize bytes, and checked under MemSpec (from construction) *)
(* and IsoSpec (two process spaces).                                       *)
(*                                                                         *)
(* Shutdown.  SysSpec runs the kernel beside a Memory in which the booted  *)
(* processes hold pages, up to KeyboardInterrupt and ClockDevice.stop().   *)
(*                                                                         *)
(* Progress.  LiveSpec adds weak fairness of the main thread and of the    *)
(* tick to the kernel booted with one fault-free user process.             *)
(*                                                                         *)
(* Wiring.  Three names in the sources do not match their targets          *)
(* (ClockDevice(interval=1), clock.running, cpu.handle_interrupt(ticks)).  *)
(* The model reads them as the members they stand for: ClockDevice(),      *)
(* clock.is_running and cpu.receive_hardware_interrupt("clock", ticks).    *)
(***************************************************************************)
EXTENDS Integers, Sequences, FiniteSets, TLC

VARIABLES
    procs,          \* pid -> the process object's immutable part
    current_task,   \* KernelProcess.current_task, per kernel pid ("none" = None)
    current_pc,     \* KernelProcess.current_pc, per kernel pid
    pcbs,           \* Kernel.pcbs: the pids of the dict, in insertion order
    context,        \* PCB.context, per pid
    state,          \* PCB.state, per pid
    time_slice,     \* PCB.time_slice, per pid
    ready_queue,    \* Scheduler.ready_queue, a list of PCBs (by pid)
    current_pcb,    \* Kernel.current_pcb (NoPid = None)
    system_time,    \* Kernel.system_time
    registers,      \* CPU.registers
    flags,          \* CPU.flags
    pc,             \* CPU.pc
    cpsr,           \* CPU.cpsr
    ticks,          \* ClockDevice.ticks
    is_running,     \* ClockDevice.is_running
    stop_event,     \* ClockDevice._stop_event
    loop,           \* position of the main thread in Kernel.start / _schedule_and_run
    instr,          \* the loop's local `instr`
    process,        \* the loop's local `process` (the pid it fetched from)
    timer,          \* the Timer chain: "none", "armed", "failed", "cancelled", or
                    \* "inflight" (a Timer thread past the guard of _send_interrupt
                    \* when stop() ran)
    boot,           \* history: the boot configuration the run started from
    stop_ticks,     \* history: ClockDevice.ticks when stop() returned (None before)
    faulted,        \* history: the pids an exception handler has terminated
    entry,          \* history: the CPU state execute_instruction was entered with
    quantum_mark,   \* history: the latest quantum-boundary tick and its outcome
    last,           \* history: the step just taken and the state it started from
    physical_pages,         \* Memory.physical_pages: pfn -> the frame's bytes
    free_page_frames,       \* Memory.free_page_frames
    process_vm,             \* Memory.process_vm: pid -> [page_table, permissions]
    kernel_reserved_pages,  \* Memory.kernel_reserved_pages
    mem_ops,                \* the number of Memory calls made so far
    mem_last                \* history: the Memory call just made, its result and
                            \* the Memory it was made on

kvars == <<procs, current_task, current_pc, pcbs, context, state, time_slice,
          ready_queue, current_pcb, system_time, registers, flags, pc, cpsr,
          ticks, is_running, stop_event, loop, instr, process, timer, boot,
          stop_ticks, faulted, entry, quantum_mark, last>>

mvars == <<physical_pages, free_page_frames, process_vm, kernel_reserved_pages,
           mem_ops, mem_last>>

vars == <<kvars, mvars>>

(***************************************************************************)
(* Bounds and program constants.                                           *)
(***************************************************************************)
MaxTicks == 15

\* Memory(total_physical_pages, page_size) is built with TotalPages frames of
\* PageSize bytes; at most MaxMemOps calls are made on it
TotalPages == 6
PageSize == 4
MaxMemOps == 4

Quantum == 3
LogPeriod == 5
MonitorPeriod == 10
ResidentPid == 100
MonitorPid == 101
NoPid == 0

PIDS == {1, 2, ResidentPid, MonitorPid}

EmptyMap == [x \in {} |-> 0]

Range(s) == {s[i] : i \in DOMAIN s}

(***************************************************************************)
(* Instruction (src/instructions/instruction.py).                          *)
(***************************************************************************)
Instruction(mode, opcode, operands, addressing_modes, iflags) ==
    [mode |-> mode, opcode |-> opcode, operands |-> operands,
     addressing_modes |-> addressing_modes, flags |-> iflags]

NoInstr == Instruction("none", "NONE", <<>>, <<>>, {})

(***************************************************************************)
(* Processes (src/process/process.py).                                     *)
(***************************************************************************)
UserProcess(pid, instructions) ==
    [pid |-> pid, type |-> "user", instructions |-> instructions,
     loop_strategy |-> "none", task_templates |-> EmptyMap]

KernelProcess(pid, loop_strategy, task_templates) ==
    [pid |-> pid, type |-> "kernel", instructions |-> <<>>,
     loop_strategy |-> loop_strategy, task_templates |-> task_templates]

\* PCB.__init__: the saved context a new PCB starts with (no "flags" key:
\* load_context reads it with a default of {}).
InitialContext(p) ==
    [registers |-> EmptyMap, flags |-> EmptyMap, pc |-> 0,
     cpsr |-> IF p.type = "user" THEN "user" ELSE "kernel"]

(***************************************************************************)
(* The programs of Kernel._create_initial_processes, and the programs of   *)
(* the other boot configurations the model starts from.                    *)
(***************************************************************************)
SysLogTask ==
    << Instruction("kernel", "MOV", <<"R5", 0>>, <<"register", "immediate">>, {}),
       Instruction("kernel", "LOG", <<"time: R5">>, <<>>, {"INFO"}) >>

ProcessCountReportTask ==
    << Instruction("kernel", "GET_PROCESS_COUNT", <<"R10">>, <<"register">>, {"SYSCALL"}),
       Instruction("kernel", "PRINT", <<"count: R10">>, <<"memory">>, {"INFO"}) >>

User1Program ==
    << Instruction("user", "MOV", <<"R0", 100>>, <<"register", "immediate">>, {}),
       Instruction("user", "MOV", <<"R1", 200>>, <<"register", "immediate">>, {}),
       Instruction("user", "ADD", <<"R2", "R0", "R1">>,
                   <<"register", "register", "register">>, {"CC"}),
       Instruction("user", "JMP", <<6>>, <<"immediate">>, {"NZ"}),
       Instruction("user", "MOV", <<"R3", 0>>, <<"register", "immediate">>, {}),
       Instruction("user", "MOV", <<"R3", 1>>, <<"register", "immediate">>, {}) >>

User2Program ==
    << Instruction("user", "MOV", <<"R0", 50>>, <<"register", "immediate">>, {}),
       Instruction("user", "DIV", <<"R1", "R0", 0>>,
                   <<"register", "register", "immediate">>, {}) >>

\* MOV R0,10; DIV R1,R0,0 (the end-to-end scenario of the specification)
DivZeroProgram ==
    << Instruction("user", "MOV", <<"R0", 10>>, <<"register", "immediate">>, {}),
       Instruction("user", "DIV", <<"R1", "R0", 0>>,
                   <<"register", "register", "immediate">>, {}) >>

\* a user process that tries a kernel-privileged instruction
PrivilegedProgram ==
    << Instruction("user", "MOV", <<"R0", 7>>, <<"register", "immediate">>, {}),
       Instruction("kernel", "GET_PROCESS_COUNT", <<"R10">>, <<"register">>, {}),
       Instruction("user", "NOP", <<>>, <<>>, {}) >>

\* a fault-free user process: it runs to natural completion
PlainProgram ==
    << Instruction("user", "MOV", <<"R0", 8>>, <<"register", "immediate">>, {}),
       Instruction("user", "DIV", <<"R1", "R0", 2>>,
                   <<"register", "register", "immediate">>, {}),
       Instruction("user", "NOP", <<>>, <<>>, {}) >>

\* a user process that executes GET_PROCESS_COUNT declared at user level,
\* then asks for the process count through the system-call gate
SyscallProgram ==
    << Instruction("user", "GET_PROCESS_COUNT", <<"R10">>, <<"register">>, {}),
       Instruction("user", "SYSCALL", <<"get_process_count", "R0">>, <<>>, {}),
       Instruction("user", "NOP", <<>>, <<>>, {}) >>

\* a user process that makes a system call no table knows
UnknownSyscallProgram ==
    << Instruction("user", "MOV", <<"R0", 5>>, <<"register", "immediate">>, {}),
       Instruction("user", "SYSCALL", <<"no_such_call", "R0">>, <<>>, {}),
       Instruction("user", "NOP", <<>>, <<>>, {}) >>

LogProcess == KernelProcess(ResidentPid, "always_loop", ("sys_log" :> SysLogTask))

MonitorProcess ==
    KernelProcess(MonitorPid, "always_loop",
                  ("process_count_report" :> ProcessCountReportTask))

\* a resident process that was given no task
IdleResident == KernelProcess(ResidentPid, "always_loop", EmptyMap)

\* kernel processes woken on a task registered with an empty instruction
\* list: register_task("flush", []), wake_up("flush")
EmptyTaskResident == KernelProcess(ResidentPid, "always_loop", ("flush" :> <<>>))

EmptyTaskMonitor == KernelProcess(MonitorPid, "on_demand", ("flush" :> <<>>))

\* Each boot configuration is the list of processes in creation order; a
\* kernel process is woken on its first registered task when it has one.
NumConfigs == 7

BootConfig(i) ==
    CASE i = 1 -> << LogProcess, MonitorProcess, UserProcess(1, User1Program),
                     UserProcess(2, User2Program) >>
      [] i = 2 -> << LogProcess, UserProcess(1, DivZeroProgram) >>
      [] i = 3 -> << LogProcess, MonitorProcess, UserProcess(1, PrivilegedProgram),
                     UserProcess(2, PlainProgram) >>
      [] i = 4 -> << IdleResident, MonitorProcess, UserProcess(1, DivZeroProgram),
                     UserProcess(2, PlainProgram) >>
      [] i = 5 -> << UserProcess(1, PlainProgram), UserProcess(2, DivZeroProgram) >>
      [] i = 6 -> << UserProcess(1, PrivilegedProgram) >>
      [] i = 8 -> << EmptyTaskResident, EmptyTaskMonitor >>
      [] i = 9 -> << UserProcess(1, PlainProgram) >>
      [] OTHER -> << UserProcess(1, SyscallProgram),
                     UserProcess(2, UnknownSyscallProgram) >>


(***************************************************************************)
(* CPU (src/cpu/cpu.py).  A CPU value is [registers, flags, pc, cpsr].     *)
(***************************************************************************)
\* CPU.set_mode: the mode after set_mode(mode) when the mode was `cur`
set_mode(cur, mode) ==
    IF mode \in {"user", "kernel"} /\ cur # mode THEN mode ELSE cur

\* dict.get(name, 0) on a register map
RegGet(regs, name) == IF name \in DOMAIN regs THEN regs[name] ELSE 0

\* registers[name] = value
RegSet(regs, name, value) == (name :> value) @@ regs

SupportedModes == {"register", "immediate", "memory"}

\* CPU._resolve_operand for a supported addressing mode; Kernel.memory is
\* an empty dict that nothing writes, so a memory operand resolves to 0
_resolve_operand(regs, operand, addressing_mode) ==
    CASE addressing_mode = "register" -> RegGet(regs, operand)
      [] addressing_mode = "immediate" -> operand
      [] OTHER -> 0

\* the context dict that SYSCALL, receive_hardware_interrupt and
\* raise_exception build from the live CPU state
Snapshot(C) ==
    [registers |-> C.registers, flags |-> C.flags, pc |-> C.pc, cpsr |-> C.cpsr]

\* CPU.load_context
load_context(C, ctx) ==
    [registers |-> ctx.registers, flags |-> ctx.flags, pc |-> ctx.pc,
     cpsr |-> set_mode(C.cpsr, ctx.cpsr)]

\* the check with the instruction's level compared to the wrong constant
PrivilegeFault_WrongLevel(ins, mode) ==
    ins.opcode # "SYSCALL" /\ mode = "user" /\ ins.mode = "user"

\* the privilege check at the head of execute_instruction
PrivilegeFault(ins, mode) ==
    ins.opcode # "SYSCALL" /\ mode = "user" /\ ins.mode = "kernel"

Raised(C, kind) == [exc |-> kind, cpu |-> C]

Completed(C) == [exc |-> "none", cpu |-> C]

\* check_operand_count(expected), and the unpacking / indexing of
\* addressing_modes that follows it: False when one of them raises
WellFormed(ins, expected, modes_needed) ==
    /\ Len(ins.operands) = expected
    /\ IF ins.opcode = "MOV"
       THEN Len(ins.addressing_modes) = modes_needed
       ELSE Len(ins.addressing_modes) >= modes_needed
    /\ \A i \in 2..modes_needed : ins.addressing_modes[i] \in SupportedModes

\* case "MOV"
ExecMOV(C, ins) ==
    IF ~WellFormed(ins, 2, 2)
    THEN Raised(C, "invalid_instruction")
    ELSE LET src_val == _resolve_operand(C.registers, ins.operands[2],
                                         ins.addressing_modes[2])
         IN Completed([C EXCEPT !.registers = RegSet(@, ins.operands[1], src_val)])

\* case "ADD"
ExecADD(C, ins) ==
    IF ~WellFormed(ins, 3, 3)
    THEN Raised(C, "invalid_instruction")
    ELSE LET op1_val == _resolve_operand(C.registers, ins.operands[2],
                                         ins.addressing_modes[2])
             op2_val == _resolve_operand(C.registers, ins.operands[3],
                                         ins.addressing_modes[3])
         IN Completed([C EXCEPT
                !.registers = RegSet(@, ins.operands[1], op1_val + op2_val),
                !.flags = IF "CC" \in ins.flags
                          THEN ("ZF" :> (IF op1_val + op2_val = 0 THEN 1 ELSE 0)) @@ @
                          ELSE @])

\* DIV with the destination written before the divisor is tested
ExecDIV_WritesFirst(C, ins) ==
    IF ~WellFormed(ins, 3, 3)
    THEN Raised(C, "invalid_instruction")
    ELSE LET divd_val == _resolve_operand(C.registers, ins.operands[2],
                                          ins.addressing_modes[2])
             divr_val == _resolve_operand(C.registers, ins.operands[3],
                                          ins.addressing_modes[3])
         IN IF divr_val = 0
            THEN Raised([C EXCEPT !.registers = RegSet(@, ins.operands[1], 0)],
                        "divide_by_zero")
            ELSE Completed([C EXCEPT !.registers =
                     RegSet(@, ins.operands[1], divd_val \div divr_val)])

\* case "DIV": ZeroDivisionError is raised before registers[dst] is written
ExecDIV(C, ins) ==
    IF ~WellFormed(ins, 3, 3)
    THEN Raised(C, "invalid_instruction")
    ELSE LET divd_val == _resolve_operand(C.registers, ins.operands[2],
                                          ins.addressing_modes[2])
             divr_val == _resolve_operand(C.registers, ins.operands[3],
                                          ins.addressing_modes[3])
         IN IF divr_val = 0
            THEN Raised(C, "divide_by_zero")
            ELSE Completed([C EXCEPT !.registers =
                     RegSet(@, ins.operands[1], divd_val \div divr_val)])

\* The attributes a Kernel object has: those the __init__ in force (the
\* second of the class body) assigns.  syscall_table and user_privileges
\* are assigned by the first __init__ only, which the second replaces.
KernelAttributes ==
    {"cpu", "clock", "system_time", "current_pcb", "scheduler", "pcbs", "memory"}

\* the keys of syscall_table and the entries of user_privileges in the
\* __init__ that is not in force
SyscallNames == {"get_process_count", "print_message"}

UserPrivileges == (1 :> 0) @@ (2 :> 1) @@ (3 :> 0)

\* the error code of handle_syscall and _sys_get_process_count
ErrorCode == -1

Returns(value) == [kind |-> "return", value |-> value]

Raises == [kind |-> "raise", value |-> 0]

\* the pids of the PCB table, in dict order, whose process is a UserProcess
RECURSIVE UserPidsOf(_)
UserPidsOf(pids) ==
    IF pids = <<>> THEN <<>>
    ELSE IF procs[Head(pids)].type = "user"
         THEN <<Head(pids)>> \o UserPidsOf(Tail(pids))
         ELSE UserPidsOf(Tail(pids))

\* Kernel._sys_get_process_count: the caller is taken to be the first user
\* PCB whose saved pc equals the pc of the caller's context
_sys_get_process_count(K, user_context) ==
    LET users == UserPidsOf(K.pcbs)
        matching == SelectSeq(users, LAMBDA q : K.context[q].pc = user_context.pc)
    IN IF matching = <<>> THEN Returns(ErrorCode)
       ELSE IF "user_privileges" \notin KernelAttributes THEN Raises
       ELSE LET current_pid == Head(matching)
                privilege == IF current_pid \in DOMAIN UserPrivileges
                             THEN UserPrivileges[current_pid] ELSE 0
            IN IF privilege = 0 THEN Returns(Len(users)) ELSE Returns(Len(K.pcbs))

\* Kernel._sys_print_message
_sys_print_message(K, user_context) == Returns(0)

\* Kernel.handle_syscall
handle_syscall(K, syscall_name, user_context) ==
    IF "syscall_table" \notin KernelAttributes THEN Raises
    ELSE IF syscall_name \notin SyscallNames THEN Returns(ErrorCode)
    ELSE IF syscall_name = "get_process_count"
         THEN _sys_get_process_count(K, user_context)
         ELSE _sys_print_message(K, user_context)

\* case "SYSCALL".  An exception out of handle_syscall (the AttributeError
\* of self.syscall_table) is caught as invalid_instruction, after
\* set_mode("kernel") and before the result register is written.
ExecSYSCALL(K, C, ins) ==
    IF ~WellFormed(ins, 2, 0)
    THEN Raised(C, "invalid_instruction")
    ELSE LET sys_result == handle_syscall(K, ins.operands[1], Snapshot(C))
             in_kernel == [C EXCEPT !.cpsr = set_mode(@, "kernel")]
         IN IF sys_result.kind = "raise"
            THEN Raised(in_kernel, "invalid_instruction")
            ELSE Completed([in_kernel EXCEPT
                     !.registers = RegSet(@, ins.operands[2], sys_result.value),
                     !.cpsr = set_mode(@, "user")])

\* case "GET_PROCESS_COUNT"
ExecGET_PROCESS_COUNT(C, ins, process_count) ==
    IF ~WellFormed(ins, 1, 0)
    THEN Raised(C, "invalid_instruction")
    ELSE Completed([C EXCEPT !.registers = RegSet(@, ins.operands[1], process_count)])

\* The try block of execute_instruction: the CPU state when the block ends
\* and the exception it ends with ("none": it falls through to pc += 1).
ExecuteBody(K, C, ins) ==
    CASE ins.opcode = "MOV" -> ExecMOV(C, ins)
      [] ins.opcode = "ADD" -> ExecADD(C, ins)
      [] ins.opcode = "DIV" -> ExecDIV(C, ins)
      [] ins.opcode = "SYSCALL" -> ExecSYSCALL(K, C, ins)
      [] ins.opcode = "GET_PROCESS_COUNT" -> ExecGET_PROCESS_COUNT(C, ins, Len(K.pcbs))
      [] ins.opcode \in {"PRINT", "LOG"} ->
             IF WellFormed(ins, 1, 0) THEN Completed(C)
             ELSE Raised(C, "invalid_instruction")
      [] ins.opcode = "NOP" -> Completed(C)
      [] OTHER -> Raised(C, "invalid_instruction")

(***************************************************************************)
(* Process fetch (src/process/process.py).                                 *)
(***************************************************************************)
\* UserProcess.get_next_instruction(pc): NoInstr stands for None
UserGetNext(p, at) ==
    IF at < Len(p.instructions) THEN p.instructions[at + 1] ELSE NoInstr

\* the instruction a task-less kernel process hands out: its opcode is the
\* message text (no operands), which is no opcode of the CPU
IdleInstruction(strategy) ==
    Instruction("kernel",
                IF strategy = "always_loop" THEN "WAIT_FOR_TASK" ELSE "SLEEP_UNTIL_WOKEN",
                <<>>, <<>>, {})

FetchResult(kind, ins, task, at) ==
    [kind |-> kind, instr |-> ins, current_task |-> task, current_pc |-> at]

\* the no-task branch of KernelProcess.get_next_instruction
NoTaskFetch(p, at) ==
    IF p.loop_strategy = "once"
    THEN FetchResult("none", NoInstr, "none", at)
    ELSE FetchResult("instr", IdleInstruction(p.loop_strategy), "none", at)

\* KernelProcess.get_next_instruction.  kind "raise": the call raises.
\* With a task assigned and current_pc inside it, the call reads instr.name,
\* an attribute Instruction does not have: AttributeError, before current_pc
\* is increased.  With current_pc at the end of the task, always_loop resets
\* current_pc and calls itself (without end when the task is empty:
\* RecursionError); any other strategy clears the task and calls itself.
KernelGetNext(p, task, at) ==
    IF task = "none" THEN NoTaskFetch(p, at)
    ELSE IF at >= Len(p.task_templates[task])
         THEN IF p.loop_strategy = "always_loop"
              THEN FetchResult("raise", NoInstr, task, 0)
              ELSE NoTaskFetch(p, at)
         ELSE FetchResult("raise", NoInstr, task, at)

\* the exception a raising get_next_instruction ends with: the read of
\* instr.name, or, for an always_loop process at the end of an empty task,
\* the recursion that never returns
FetchException(p, task) ==
    IF Len(p.task_templates[task]) = 0 THEN "RecursionError" ELSE "AttributeError"

\* KernelProcess.wake_up(task_id): the [current_task, current_pc] afterwards
wake_up(p, task, at, task_id) ==
    IF task_id \notin DOMAIN p.task_templates
    THEN [current_task |-> task, current_pc |-> at]
    ELSE [current_task |-> task_id, current_pc |-> 0]

(***************************************************************************)
(* Scheduler (src/kernel/kernel.py).  A scheduler value S is               *)
(* [ready_queue, state]; `live` is the set of pids in Kernel.pcbs.         *)
(***************************************************************************)
\* Scheduler.add_ready_process
add_ready_process(S, pid) ==
    [ready_queue |-> Append(S.ready_queue, pid),
     state |-> [S.state EXCEPT ![pid] = "ready"]]

\* select_next_process reading the head of the queue without popping it
select_next_process_NoPop(S, live, current) ==
    LET pruned == SelectSeq(S.ready_queue, LAMBDA q : q \in live)
        S1 == [ready_queue |-> pruned, state |-> S.state]
    IN IF pruned = <<>> /\ ResidentPid \notin live
       THEN [next |-> NoPid, ready_queue |-> pruned, state |-> S.state]
       ELSE LET S2 == IF pruned = <<>> THEN add_ready_process(S1, ResidentPid) ELSE S1
                S3 == IF current # NoPid /\ current \in live
                      THEN [ready_queue |-> Append(S2.ready_queue, current),
                            state |-> [S2.state EXCEPT ![current] = "ready"]]
                      ELSE S2
                next_pcb == Head(S3.ready_queue)
            IN [next |-> next_pcb, ready_queue |-> S3.ready_queue,
                state |-> [S3.state EXCEPT ![next_pcb] = "running"]]

\* Scheduler.select_next_process: [next, ready_queue, state]; next = NoPid
\* stands for None
select_next_process(S, live, current) ==
    LET pruned == SelectSeq(S.ready_queue, LAMBDA q : q \in live)
        S1 == [ready_queue |-> pruned, state |-> S.state]
    IN IF pruned = <<>> /\ ResidentPid \notin live
       THEN [next |-> NoPid, ready_queue |-> pruned, state |-> S.state]
       ELSE LET S2 == IF pruned = <<>> THEN add_ready_process(S1, ResidentPid) ELSE S1
                S3 == IF current # NoPid /\ current \in live
                      THEN [ready_queue |-> Append(S2.ready_queue, current),
                            state |-> [S2.state EXCEPT ![current] = "ready"]]
                      ELSE S2
                next_pcb == Head(S3.ready_queue)
            IN [next |-> next_pcb, ready_queue |-> Tail(S3.ready_queue),
                state |-> [S3.state EXCEPT ![next_pcb] = "running"]]

(***************************************************************************)
(* Kernel (src/kernel/kernel.py).  A kernel value K is                     *)
(* [pcbs, context, state, time_slice, ready_queue, current_pcb].           *)
(***************************************************************************)
Live(K) == Range(K.pcbs)

\* Kernel._terminate_process
_terminate_process(K, pid) ==
    [K EXCEPT !.pcbs = SelectSeq(@, LAMBDA q : q # pid),
              !.ready_queue = SelectSeq(@, LAMBDA q : q # pid)]

\* the tail the three exception handlers share with the dispatch loop:
\* current_pcb = select_next_process(None), then load_context if one came
ScheduleAndLoad(K, C) ==
    LET sel == select_next_process([ready_queue |-> K.ready_queue, state |-> K.state],
                                   Live(K), NoPid)
        K1 == [K EXCEPT !.ready_queue = sel.ready_queue, !.state = sel.state,
                        !.current_pcb = sel.next]
    IN [kernel |-> K1,
        cpu |-> IF sel.next # NoPid THEN load_context(C, K1.context[sel.next]) ELSE C]

\* Kernel._handle_divide_by_zero
_handle_divide_by_zero(K, C, current_context) ==
    LET K1 == IF K.current_pcb # NoPid
              THEN [_terminate_process(
                        [K EXCEPT !.context[K.current_pcb] = current_context],
                        K.current_pcb)
                    EXCEPT !.current_pcb = NoPid]
              ELSE K
    IN ScheduleAndLoad(K1, C)

\* Kernel._handle_privilege_violation
_handle_privilege_violation(K, C, current_context) ==
    LET K1 == IF K.current_pcb # NoPid
              THEN [_terminate_process(
                        [K EXCEPT !.context[K.current_pcb] = current_context],
                        K.current_pcb)
                    EXCEPT !.current_pcb = NoPid]
              ELSE K
    IN ScheduleAndLoad(K1, C)

\* Kernel._handle_invalid_instruction
_handle_invalid_instruction(K, C, current_context) ==
    LET K1 == IF K.current_pcb # NoPid
              THEN [_terminate_process(
                        [K EXCEPT !.context[K.current_pcb] = current_context],
                        K.current_pcb)
                    EXCEPT !.current_pcb = NoPid]
              ELSE K
    IN ScheduleAndLoad(K1, C)

\* Kernel.handle_exception
handle_exception(K, C, exception_type, current_context) ==
    CASE exception_type = "divide_by_zero" ->
             _handle_divide_by_zero(K, C, current_context)
      [] exception_type = "privilege_violation" ->
             _handle_privilege_violation(K, C, current_context)
      [] exception_type = "invalid_instruction" ->
             _handle_invalid_instruction(K, C, current_context)
      [] OTHER -> [kernel |-> K, cpu |-> C]

\* CPU.raise_exception
raise_exception(K, C, exception_type) ==
    handle_exception(K, [C EXCEPT !.cpsr = set_mode(@, "kernel")],
                     exception_type, Snapshot(C))

\* CPU.execute_instruction up to its last statement: the privilege check,
\* the try block and the exception path, [kernel, cpu, exc].  With exc =
\* "none" the statement self.pc += 1 is still to run.
execute_instruction_try(K, C, ins) ==
    IF PrivilegeFault(ins, C.cpsr)
    THEN raise_exception(K, C, "privilege_violation")
             @@ [exc |-> "privilege_violation"]
    ELSE LET body == ExecuteBody(K, C, ins)
         IN IF body.exc # "none"
            THEN raise_exception(K, body.cpu, body.exc) @@ [exc |-> body.exc]
            ELSE [kernel |-> K, cpu |-> body.cpu, exc |-> "none"]

\* self.pc += 1, the last statement of execute_instruction
pc_increment(C) == [C EXCEPT !.pc = @ + 1]

\* CPU.execute_instruction run without interruption: [kernel, cpu, exc]
execute_instruction(K, C, ins) ==
    LET r == execute_instruction_try(K, C, ins)
    IN IF r.exc # "none" THEN r ELSE [r EXCEPT !.cpu = pc_increment(@)]

\* Kernel._handle_clock_interrupt, entered with the CPU already in kernel
\* mode.  T is [current_task, current_pc] of the kernel processes.  The
\* result is [kernel, cpu, tasks, raised]; raised: pcbs.get(pid) was None
\* and reading .process of it raised AttributeError, which ends the handler
\* with what it had done so far.
_handle_clock_interrupt(K, C, T, tick, current_context) ==
    LET log_due == tick % LogPeriod = 0
        mon_due == tick % MonitorPeriod = 0
        woken(TT, pid, task_id) ==
            LET w == wake_up(procs[pid], TT.current_task[pid], TT.current_pc[pid], task_id)
            IN [current_task |-> [TT.current_task EXCEPT ![pid] = w.current_task],
                current_pc |-> [TT.current_pc EXCEPT ![pid] = w.current_pc]]
        T1 == IF log_due /\ ResidentPid \in Live(K)
              THEN woken(T, ResidentPid, "sys_log") ELSE T
        T2 == IF mon_due /\ MonitorPid \in Live(K)
              THEN woken(T1, MonitorPid, "process_count_report") ELSE T1
        requeue == mon_due /\ MonitorPid \in Live(K)
                   /\ MonitorPid \notin Range(K.ready_queue)
                   /\ K.state[MonitorPid] # "running"
        S1 == IF requeue
              THEN add_ready_process([ready_queue |-> K.ready_queue, state |-> K.state],
                                     MonitorPid)
              ELSE [ready_queue |-> K.ready_queue, state |-> K.state]
        K1 == [K EXCEPT !.ready_queue = S1.ready_queue, !.state = S1.state]
        K2 == IF K.current_pcb # NoPid
              THEN [K1 EXCEPT !.context[K.current_pcb] = current_context,
                              !.time_slice[K.current_pcb] = @ + 1]
              ELSE K1
        sel == select_next_process([ready_queue |-> K2.ready_queue, state |-> K2.state],
                                   Live(K2), K2.current_pcb)
        K3 == [K2 EXCEPT !.ready_queue = sel.ready_queue, !.state = sel.state,
                         !.current_pcb = sel.next]
    IN IF log_due /\ ResidentPid \notin Live(K)
       THEN [kernel |-> K, cpu |-> C, tasks |-> T, raised |-> TRUE]
       ELSE IF mon_due /\ MonitorPid \notin Live(K)
       THEN [kernel |-> K, cpu |-> C, tasks |-> T1, raised |-> TRUE]
       ELSE IF tick % Quantum = 0
       THEN [kernel |-> K3,
             cpu |-> IF sel.next # NoPid THEN load_context(C, K3.context[sel.next]) ELSE C,
             tasks |-> T2, raised |-> FALSE]
       ELSE [kernel |-> K2,
             cpu |-> IF K2.current_pcb # NoPid THEN load_context(C, current_context) ELSE C,
             tasks |-> T2, raised |-> FALSE]

\* Kernel.handle_interrupt: only "clock" has a handler
handle_interrupt(K, C, T, interrupt_type, data, current_context) ==
    IF interrupt_type = "clock"
    THEN _handle_clock_interrupt(K, C, T, data, current_context)
    ELSE [kernel |-> K, cpu |-> C, tasks |-> T, raised |-> FALSE]

\* CPU.receive_hardware_interrupt (interrupt_enabled is set True at
\* construction and never written again)
receive_hardware_interrupt(K, C, T, interrupt_type, data) ==
    handle_interrupt(K, [C EXCEPT !.cpsr = set_mode(@, "kernel")], T,
                     interrupt_type, data, Snapshot(C))

(***************************************************************************)
(* Memory (src/memory/memory.py).  A Memory value M is [physical_pages,    *)
(* free_page_frames, process_vm, kernel_reserved_pages].                   *)
(***************************************************************************)
\* the frames _reserve_kernel_memory takes: range(4)
ReservedCount == 4

ByteBase == 256

\* b"KERNEL_RESERVED"
KernelTag == <<75, 69, 82, 78, 69, 76, 95, 82, 69, 83, 69, 82, 86, 69, 68>>

\* the number of bytes the zero padding of a reserved frame is computed from
TagPad == 16

\* b"\x00" * n (empty when n <= 0)
Zeros(n) == [i \in 1..n |-> 0]

\* del d[k]
Without(d, k) == [x \in DOMAIN d \ {k} |-> d[x]]

\* d[k] = v
With(d, k, v) == (k :> v) @@ d

\* a ** n
RECURSIVE Pow(_, _)
Pow(a, n) == IF n <= 0 THEN 1 ELSE a * Pow(a, n - 1)

\* int.to_bytes(length, byteorder="little", signed=False); defined when the
\* value fits (see Fits)
to_bytes(data, length) == [i \in 1..length |-> (data \div Pow(ByteBase, i - 1)) % ByteBase]

\* to_bytes raises OverflowError unless 0 <= data < 256 ** length
Fits(data, length) == data >= 0 /\ data < Pow(ByteBase, length)

\* int.from_bytes(b, byteorder="little", signed=False)
RECURSIVE from_bytes(_)
from_bytes(b) ==
    IF b = <<>> THEN 0 ELSE Head(b) + ByteBase * from_bytes(Tail(b))

\* b[lo:hi] for 0 <= lo (0-based, hi exclusive, cut at len(b))
Slice(b, lo, hi) ==
    LET top == IF hi > Len(b) THEN Len(b) ELSE hi
    IN IF top <= lo THEN <<>> ELSE [i \in 1..(top - lo) |-> b[lo + i]]

\* Memory.__init__ before the reservation: every frame free, no frame data
BlankMemory ==
    [physical_pages |-> EmptyMap,
     free_page_frames |-> [i \in 1..TotalPages |-> i - 1],
     process_vm |-> EmptyMap,
     kernel_reserved_pages |-> <<>>]

\* Memory._reserve_kernel_memory, the i-th pass of its loop onwards
RECURSIVE _reserve_kernel_memory(_, _)
_reserve_kernel_memory(M, i) ==
    IF i > ReservedCount THEN M
    ELSE IF M.free_page_frames = <<>> THEN _reserve_kernel_memory(M, i + 1)
    ELSE LET pfn == Head(M.free_page_frames)
         IN _reserve_kernel_memory(
                [M EXCEPT !.free_page_frames = Tail(@),
                          !.kernel_reserved_pages = Append(@, pfn),
                          !.physical_pages =
                              With(@, pfn, KernelTag \o Zeros(PageSize - TagPad))],
                i + 1)

\* Memory.create_process_vm
create_process_vm(M, pid) ==
    IF pid \in DOMAIN M.process_vm THEN M
    ELSE [M EXCEPT !.process_vm =
              With(@, pid, [page_table |-> EmptyMap, permissions |-> EmptyMap])]

\* None as the result of a Memory call that returns a frame number or an
\* address
None == -1

\* allocate_physical_page with the frame taken before the process space is
\* looked up
allocate_physical_page_PopsFirst(M, pid, vpn, permission) ==
    IF M.free_page_frames = <<>>
    THEN [mem |-> M, result |-> None]
    ELSE IF pid \notin DOMAIN M.process_vm
    THEN [mem |-> [M EXCEPT !.free_page_frames = Tail(@)], result |-> None]
    ELSE LET pfn == Head(M.free_page_frames)
         IN [mem |-> [M EXCEPT
                 !.free_page_frames = Tail(@),
                 !.physical_pages = With(@, pfn, Zeros(PageSize)),
                 !.process_vm[pid].page_table = With(@, vpn, pfn),
                 !.process_vm[pid].permissions = With(@, vpn, permission)],
             result |-> pfn]

\* Memory.allocate_physical_page: [mem, result]
allocate_physical_page(M, pid, vpn, permission) ==
    IF pid \notin DOMAIN M.process_vm
    THEN [mem |-> M, result |-> None]
    ELSE IF M.free_page_frames = <<>>
    THEN [mem |-> M, result |-> None]
    ELSE LET pfn == Head(M.free_page_frames)
         IN [mem |-> [M EXCEPT
                 !.free_page_frames = Tail(@),
                 !.physical_pages = With(@, pfn, Zeros(PageSize)),
                 !.process_vm[pid].page_table = With(@, vpn, pfn),
                 !.process_vm[pid].permissions = With(@, vpn, permission)],
             result |-> pfn]

\* free_physical_page that returns the frame to the free list and keeps the
\* page-table entry
free_physical_page_KeepsMapping(M, pid, vpn) ==
    IF pid \notin DOMAIN M.process_vm THEN M
    ELSE IF vpn \notin DOMAIN M.process_vm[pid].page_table THEN M
    ELSE LET pfn == M.process_vm[pid].page_table[vpn]
         IN [M EXCEPT !.free_page_frames = Append(@, pfn),
                      !.process_vm[pid].permissions = Without(@, vpn)]

\* Memory.free_physical_page
free_physical_page(M, pid, vpn) ==
    IF pid \notin DOMAIN M.process_vm THEN M
    ELSE IF vpn \notin DOMAIN M.process_vm[pid].page_table THEN M
    ELSE LET pfn == M.process_vm[pid].page_table[vpn]
             M1 == [M EXCEPT !.process_vm[pid].page_table = Without(@, vpn)]
             M2 == IF pfn \notin Range(M.kernel_reserved_pages)
                   THEN [M1 EXCEPT !.free_page_frames = Append(@, pfn),
                                   !.physical_pages = Without(@, pfn)]
                   ELSE M1
         IN [M2 EXCEPT !.process_vm[pid].permissions = Without(@, vpn)]

\* Memory.translate_virtual_address: [physical_addr, permission], with None
\* and "None" for (None, None)
translate_virtual_address(M, pid, virtual_addr) ==
    IF pid \notin DOMAIN M.process_vm
    THEN [physical_addr |-> None, permission |-> "None"]
    ELSE LET vpn == virtual_addr \div PageSize
             offset == virtual_addr % PageSize
             vm == M.process_vm[pid]
         IN IF vpn \notin DOMAIN vm.page_table
            THEN [physical_addr |-> None, permission |-> "None"]
            ELSE [physical_addr |-> vm.page_table[vpn] * PageSize + offset,
                  permission |-> IF vpn \in DOMAIN vm.permissions
                                 THEN vm.permissions[vpn] ELSE "r"]

\* the test `not physical_addr`: true of None and of address 0
Falsy(physical_addr) == physical_addr = None \/ physical_addr = 0

\* the length an access is cut to at the end of the page
Clamped(offset, length) ==
    IF offset + length > PageSize THEN PageSize - offset ELSE length

\* Memory.read_memory: the integer it returns
read_memory(M, pid, virtual_addr, length) ==
    LET t == translate_virtual_address(M, pid, virtual_addr)
        pfn == t.physical_addr \div PageSize
        offset == t.physical_addr % PageSize
    IN IF Falsy(t.physical_addr) THEN 0
       ELSE IF t.permission \notin {"r", "rw", "rx"} THEN 0
       ELSE IF pfn \notin DOMAIN M.physical_pages THEN 0
       ELSE from_bytes(Slice(M.physical_pages[pfn], offset,
                             offset + Clamped(offset, length)))

\* write_memory without the permission test
write_memory_NoPermissionTest(M, pid, virtual_addr, data, length) ==
    LET t == translate_virtual_address(M, pid, virtual_addr)
        pfn == t.physical_addr \div PageSize
        offset == t.physical_addr % PageSize
        len == Clamped(offset, length)
        page_data == M.physical_pages[pfn]
    IN IF Falsy(t.physical_addr) THEN [mem |-> M, result |-> "False"]
       ELSE IF pfn \notin DOMAIN M.physical_pages THEN [mem |-> M, result |-> "False"]
       ELSE IF ~Fits(data, len) THEN [mem |-> M, result |-> "OverflowError"]
       ELSE [mem |-> [M EXCEPT !.physical_pages[pfn] =
                         Slice(page_data, 0, offset) \o to_bytes(data, len)
                             \o Slice(page_data, offset + len, Len(page_data))],
             result |-> "True"]

\* Memory.write_memory: [mem, result]; result is "True", "False" or the
\* exception that data.to_bytes raised
write_memory(M, pid, virtual_addr, data, length) ==
    LET t == translate_virtual_address(M, pid, virtual_addr)
        pfn == t.physical_addr \div PageSize
        offset == t.physical_addr % PageSize
        len == Clamped(offset, length)
        page_data == M.physical_pages[pfn]
    IN IF Falsy(t.physical_addr) THEN [mem |-> M, result |-> "False"]
       ELSE IF t.permission # "rw" THEN [mem |-> M, result |-> "False"]
       ELSE IF pfn \notin DOMAIN M.physical_pages THEN [mem |-> M, result |-> "False"]
       ELSE IF ~Fits(data, len) THEN [mem |-> M, result |-> "OverflowError"]
       ELSE [mem |-> [M EXCEPT !.physical_pages[pfn] =
                         Slice(page_data, 0, offset) \o to_bytes(data, len)
                             \o Slice(page_data, offset + len, Len(page_data))],
             result |-> "True"]

(***************************************************************************)
(* The state as values, and the history record.                            *)
(***************************************************************************)
TheKernel ==
    [pcbs |-> pcbs, context |-> context, state |-> state, time_slice |-> time_slice,
     ready_queue |-> ready_queue, current_pcb |-> current_pcb]

TheCpu == [registers |-> registers, flags |-> flags, pc |-> pc, cpsr |-> cpsr]

TheTasks == [current_task |-> current_task, current_pc |-> current_pc]

SetKernel(K) ==
    /\ pcbs' = K.pcbs
    /\ context' = K.context
    /\ state' = K.state
    /\ time_slice' = K.time_slice
    /\ ready_queue' = K.ready_queue
    /\ current_pcb' = K.current_pcb

SetCpu(C) ==
    /\ registers' = C.registers
    /\ flags' = C.flags
    /\ pc' = C.pc
    /\ cpsr' = C.cpsr

\* what the step just taken was and the state it started from
History(op, exc, tick, returned) ==
    [op |-> op, exc |-> exc, tick |-> tick, returned |-> returned,
     kernel |-> TheKernel, cpu |-> TheCpu, instr |-> instr, process |-> process,
     mark |-> quantum_mark, tasks |-> TheTasks]

(***************************************************************************)
(* Init: the state after Kernel() and _create_initial_processes, for one   *)
(* of the boot configurations.                                             *)
(***************************************************************************)
NoProcess ==
    [pid |-> NoPid, type |-> "none", instructions |-> <<>>,
     loop_strategy |-> "none", task_templates |-> EmptyMap]

ProcessOf(cfg, pid) ==
    IF \E i \in DOMAIN cfg : cfg[i].pid = pid
    THEN cfg[CHOOSE i \in DOMAIN cfg : cfg[i].pid = pid]
    ELSE NoProcess

\* the task _create_initial_processes wakes a kernel process on
BootTask(p) ==
    IF DOMAIN p.task_templates = {} THEN "none"
    ELSE CHOOSE t \in DOMAIN p.task_templates : TRUE

\* the kernel as Kernel() leaves it, booted with configuration c
KernelBoot(c) ==
        LET cfg == BootConfig(c)
        IN /\ procs = [pid \in PIDS |-> ProcessOf(cfg, pid)]
           /\ current_task = [pid \in PIDS |-> BootTask(ProcessOf(cfg, pid))]
           /\ current_pc = [pid \in PIDS |-> 0]
           /\ pcbs = [i \in DOMAIN cfg |-> cfg[i].pid]
           /\ context = [pid \in PIDS |-> InitialContext(ProcessOf(cfg, pid))]
           /\ state = [pid \in PIDS |-> "ready"]
           /\ time_slice = [pid \in PIDS |-> 0]
           /\ ready_queue = [i \in DOMAIN cfg |-> cfg[i].pid]
           /\ current_pcb = NoPid
           /\ system_time = 0
           /\ registers = EmptyMap
           /\ flags = EmptyMap
           /\ pc = 0
           /\ cpsr = "user"
           /\ ticks = 0
           /\ is_running = FALSE
           /\ stop_event = FALSE
           /\ loop = "start"
           /\ instr = NoInstr
           /\ process = NoPid
           /\ timer = "none"
           /\ boot = c
           /\ stop_ticks = None
           /\ faulted = {}
           /\ entry = [registers |-> EmptyMap, flags |-> EmptyMap, pc |-> 0,
                       cpsr |-> "user"]
           /\ quantum_mark = [tick |-> 0, live |-> {}, current |-> NoPid]
           /\ last = [op |-> "Init", exc |-> "none", tick |-> 0, returned |-> NoPid,
                      kernel |-> [pcbs |-> <<>>, context |-> context, state |-> state,
                                  time_slice |-> time_slice, ready_queue |-> <<>>,
                                  current_pcb |-> NoPid],
                      cpu |-> [registers |-> EmptyMap, flags |-> EmptyMap, pc |-> 0,
                               cpsr |-> "user"],
                      instr |-> NoInstr, process |-> NoPid,
                      mark |-> [tick |-> 0, live |-> {}, current |-> NoPid],
                      tasks |-> [current_task |-> current_task,
                                 current_pc |-> current_pc]]

KernelInit == \E c \in 1..NumConfigs : KernelBoot(c)

\* a Memory call is recorded as [op, pid, vpn, virtual_addr, data, length,
\* permission, status, value, mem]: status is how the call ended, value the
\* integer it returned, mem the Memory it was made on
MemHistory(op, pid, vpn, virtual_addr, data, length, permission, status, value, M) ==
    [op |-> op, pid |-> pid, vpn |-> vpn, virtual_addr |-> virtual_addr,
     data |-> data, length |-> length, permission |-> permission,
     status |-> status, value |-> value, mem |-> M]

\* Memory(TotalPages, PageSize)
MemoryInit ==
    LET M == _reserve_kernel_memory(BlankMemory, 1)
    IN /\ physical_pages = M.physical_pages
       /\ free_page_frames = M.free_page_frames
       /\ process_vm = M.process_vm
       /\ kernel_reserved_pages = M.kernel_reserved_pages
       /\ mem_ops = 0
       /\ mem_last = MemHistory("init", 0, 0, 0, 0, 0, "", "", 0, BlankMemory)

Init == KernelInit /\ MemoryInit

(***************************************************************************)
(* The tick source (src/clock/clock.py).                                   *)
(***************************************************************************)
\* the guard of ClockDevice._send_interrupt with the stop flags left out
SendGuard_IgnoresStop(running, stopped) == TRUE

\* the guard of ClockDevice._send_interrupt (the cpu is always attached):
\* TRUE when the call goes on to count and deliver a tick
SendGuard(running, stopped) == running /\ ~stopped

\* ClockDevice._send_interrupt past its guard: ticks += 1, the interrupt,
\* then the next Timer (not reached when the handler raised)
Deliver(op) ==
    LET r == receive_hardware_interrupt(TheKernel, TheCpu, TheTasks, "clock", ticks + 1)
    IN /\ ticks' = ticks + 1
       /\ system_time' = ticks + 1
       /\ SetKernel(r.kernel)
       /\ SetCpu(r.cpu)
       /\ current_task' = r.tasks.current_task
       /\ current_pc' = r.tasks.current_pc
       /\ timer' = IF r.raised THEN "failed" ELSE "armed"
       /\ quantum_mark' = IF (ticks + 1) % Quantum = 0
                          THEN [tick |-> ticks + 1, live |-> Live(r.kernel),
                                current |-> r.kernel.current_pcb]
                          ELSE quantum_mark
       /\ last' = History(op, IF r.raised THEN "AttributeError" ELSE "none",
                          ticks + 1, r.kernel.current_pcb)

\* Kernel.start: ClockDevice.start, whose first _send_interrupt runs on the
\* main thread, then the dispatch loop is entered
Start ==
    /\ loop = "start"
    /\ ~is_running
    /\ is_running' = TRUE
    /\ Deliver("Start")
    /\ loop' = "top"
    /\ UNCHANGED <<procs, stop_event, instr, process, boot,
                   stop_ticks, faulted, entry>>
    /\ UNCHANGED mvars

\* a Timer thread runs ClockDevice._send_interrupt.  The Timer threads are
\* daemons: they end with the main thread, which an exception that leaves
\* the dispatch loop ends.
Tick ==
    /\ timer = "armed"
    /\ loop # "failed"
    /\ ticks < MaxTicks
    /\ SendGuard(is_running, stop_event)
    /\ Deliver("Tick")
    /\ UNCHANGED <<procs, is_running, stop_event, loop, instr, process, boot,
                   stop_ticks, faulted, entry>>
    /\ UNCHANGED mvars

(***************************************************************************)
(* The dispatch loop, Kernel._schedule_and_run.                            *)
(***************************************************************************)
\* no current process: select one and load it
LoopSchedule ==
    /\ loop = "top"
    /\ is_running
    /\ current_pcb = NoPid
    /\ LET r == ScheduleAndLoad(TheKernel, TheCpu)
       IN /\ SetKernel(r.kernel)
          /\ SetCpu(r.cpu)
          /\ last' = History("Schedule", "none", ticks, r.kernel.current_pcb)
    /\ UNCHANGED <<procs, current_task, current_pc, system_time, ticks, is_running,
                   stop_event, loop, instr, process, timer, boot,
                   stop_ticks, faulted, entry, quantum_mark>>
    /\ UNCHANGED mvars

\* process = current_pcb.process; instr = process.get_next_instruction(...)
LoopFetch ==
    /\ loop = "top"
    /\ is_running
    /\ current_pcb # NoPid
    /\ LET p == procs[current_pcb]
           f == IF p.type = "kernel"
                THEN KernelGetNext(p, current_task[current_pcb], current_pc[current_pcb])
                ELSE FetchResult(IF UserGetNext(p, pc).opcode = "NONE"
                                 THEN "none" ELSE "instr",
                                 UserGetNext(p, pc), "none", 0)
       IN /\ process' = current_pcb
          /\ instr' = f.instr
          /\ loop' = CASE f.kind = "instr" -> "fetched"
                       [] f.kind = "none" -> "complete"
                       [] OTHER -> "failed"
          /\ IF p.type = "kernel"
             THEN /\ current_task' = [current_task EXCEPT ![current_pcb] = f.current_task]
                  /\ current_pc' = [current_pc EXCEPT ![current_pcb] = f.current_pc]
             ELSE UNCHANGED <<current_task, current_pc>>
          /\ last' = History("Fetch",
                             IF f.kind = "raise"
                             THEN FetchException(p, current_task[current_pcb])
                             ELSE "none",
                             ticks, NoPid)
    /\ UNCHANGED <<procs, pcbs, context, state, time_slice, ready_queue, current_pcb,
                   system_time, registers, flags, pc, cpsr, ticks, is_running,
                   stop_event, timer, boot,
                   stop_ticks, faulted, entry, quantum_mark>>
    /\ UNCHANGED mvars

\* self.cpu.execute_instruction(instr), up to its last statement
LoopExecute ==
    /\ loop = "fetched"
    /\ LET r == execute_instruction_try(TheKernel, TheCpu, instr)
       IN /\ SetKernel(r.kernel)
          /\ SetCpu(r.cpu)
          /\ last' = History("Execute", r.exc, ticks, r.kernel.current_pcb)
          /\ faulted' = IF r.exc # "none" /\ current_pcb # NoPid
                        THEN faulted \cup {current_pcb} ELSE faulted
          /\ loop' = IF r.exc # "none" THEN "top" ELSE "executed"
    /\ entry' = TheCpu
    /\ UNCHANGED <<procs, current_task, current_pc, system_time, ticks, is_running,
                   stop_event, instr, process, timer, boot, stop_ticks, quantum_mark>>
    /\ UNCHANGED mvars

\* the last statement of execute_instruction, self.pc += 1: it adds to
\* whatever self.pc holds by then
LoopAdvance ==
    /\ loop = "executed"
    /\ SetCpu(pc_increment(TheCpu))
    /\ loop' = "top"
    /\ last' = History("Advance", "none", ticks, current_pcb)
    /\ UNCHANGED <<procs, current_task, current_pc, pcbs, context, state, time_slice,
                   ready_queue, current_pcb, system_time, ticks, is_running,
                   stop_event, instr, process, timer, boot, stop_ticks, faulted, entry,
                   quantum_mark>>
    /\ UNCHANGED mvars

\* instr is None: _terminate_process(self.current_pcb), select, load.
\* _terminate_process reads pcb.process.pid: AttributeError when current_pcb
\* has become None.
LoopComplete ==
    /\ loop = "complete"
    /\ IF current_pcb = NoPid
       THEN /\ loop' = "failed"
            /\ last' = History("Complete", "AttributeError", ticks, NoPid)
            /\ UNCHANGED <<pcbs, context, state, time_slice, ready_queue, current_pcb,
                           registers, flags, pc, cpsr>>
       ELSE LET r == ScheduleAndLoad(_terminate_process(TheKernel, current_pcb), TheCpu)
            IN /\ SetKernel(r.kernel)
               /\ SetCpu(r.cpu)
               /\ loop' = "top"
               /\ last' = History("Complete", "none", ticks, r.kernel.current_pcb)
    /\ UNCHANGED <<procs, current_task, current_pc, system_time, ticks, is_running,
                   stop_event, instr, process, timer, boot,
                   stop_ticks, faulted, entry, quantum_mark>>
    /\ UNCHANGED mvars

Next ==
    \/ Start
    \/ Tick
    \/ LoopSchedule
    \/ LoopFetch
    \/ LoopExecute
    \/ LoopAdvance
    \/ LoopComplete

Spec == Init /\ [][Next]_vars

(***************************************************************************)
(* Shutdown (src/start.py): KeyboardInterrupt leaves kernel.start() and    *)
(* the handler calls kernel.clock.stop().  The kernel runs beside a Memory *)
(* in which every booted process has a process space and one mapped page.  *)
(***************************************************************************)
\* ClockDevice.stop: [is_running, stop_event] afterwards
stop(running, stopped) == [is_running |-> FALSE, stop_event |-> TRUE]

\* KeyboardInterrupt in the main thread, then kernel.clock.stop().  A Timer
\* that is still waiting is cancelled; a Timer thread that had passed the
\* guard of _send_interrupt before stop() wrote the flags is in flight.
Stop ==
    /\ loop \in {"top", "fetched", "executed", "complete"}
    /\ ~stop_event
    /\ is_running' = stop(is_running, stop_event).is_running
    /\ stop_event' = stop(is_running, stop_event).stop_event
    /\ loop' = "halted"
    /\ stop_ticks' = ticks
    /\ timer' \in IF timer = "armed" /\ SendGuard(is_running, stop_event)
                      /\ ticks < MaxTicks
                  THEN {"cancelled", "inflight"}
                  ELSE {timer}
    /\ last' = History("Stop", "none", ticks, current_pcb)
    /\ UNCHANGED <<procs, current_task, current_pc, pcbs, context, state, time_slice,
                   ready_queue, current_pcb, system_time, registers, flags, pc, cpsr,
                   ticks, instr, process, boot, faulted, entry, quantum_mark>>
    /\ UNCHANGED mvars

\* the Timer thread that was past the guard when stop() ran: it counts and
\* delivers its tick and starts the next Timer
TickInFlight ==
    /\ timer = "inflight"
    /\ Deliver("Tick")
    /\ UNCHANGED <<procs, is_running, stop_event, loop, instr, process, boot,
                   stop_ticks, faulted, entry>>
    /\ UNCHANGED mvars

\* a Timer fires and _send_interrupt returns at its guard: no tick, no
\* further Timer
TickRefused ==
    /\ timer = "armed"
    /\ ~SendGuard(is_running, stop_event)
    /\ timer' = "none"
    /\ UNCHANGED <<procs, current_task, current_pc, pcbs, context, state, time_slice,
                   ready_queue, current_pcb, system_time, registers, flags, pc, cpsr,
                   ticks, is_running, stop_event, loop, instr, process, boot,
                   stop_ticks, faulted, entry, quantum_mark, last>>
    /\ UNCHANGED mvars

\* the boot configurations the shutdown is run from
SysBoots == {1, 5, 8}

\* create_process_vm(pid) and allocate_physical_page(pid, 0, "rw") for the
\* processes of a boot configuration, in creation order
RECURSIVE MapProcesses(_, _)
MapProcesses(M, cfg) ==
    IF cfg = <<>> THEN M
    ELSE MapProcesses(
             allocate_physical_page(create_process_vm(M, Head(cfg).pid),
                                    Head(cfg).pid, 0, "rw").mem,
             Tail(cfg))

\* the Memory the kernel of configuration c runs beside
SysMemory(c) == MapProcesses(_reserve_kernel_memory(BlankMemory, 1), BootConfig(c))

SysInit ==
    \E c \in SysBoots :
        /\ KernelBoot(c)
        /\ physical_pages = SysMemory(c).physical_pages
        /\ free_page_frames = SysMemory(c).free_page_frames
        /\ process_vm = SysMemory(c).process_vm
        /\ kernel_reserved_pages = SysMemory(c).kernel_reserved_pages
        /\ mem_ops = 0
        /\ mem_last = MemHistory("init", 0, 0, 0, 0, 0, "", "", 0, BlankMemory)

SysNext ==
    \/ Next
    \/ Stop
    \/ TickInFlight
    \/ TickRefused

SysSpec == SysInit /\ [][SysNext]_vars

(***************************************************************************)
(* The Memory manager on its own: the kernel holds no Memory object        *)
(* (Kernel.memory is a dict), so its operations are called on a Memory     *)
(* built beside the kernel, which stays as booted.                         *)
(***************************************************************************)
TheMemory ==
    [physical_pages |-> physical_pages, free_page_frames |-> free_page_frames,
     process_vm |-> process_vm, kernel_reserved_pages |-> kernel_reserved_pages]

SetMemory(M) ==
    /\ physical_pages' = M.physical_pages
    /\ free_page_frames' = M.free_page_frames
    /\ process_vm' = M.process_vm
    /\ kernel_reserved_pages' = M.kernel_reserved_pages

\* the arguments the calls are made with
MemPids == {1, 2}
Vpns == {0, 1}
Permissions == {"r", "rw", "rx"}
VirtualAddrs == {0, PageSize - 1, PageSize}
Lengths == {1, 2}
Values == {255, 256}

CreateProcessVm ==
    /\ mem_ops < MaxMemOps
    /\ \E pid \in MemPids :
           /\ SetMemory(create_process_vm(TheMemory, pid))
           /\ mem_last' = MemHistory("create_process_vm", pid, 0, 0, 0, 0, "", "ok", 0,
                                     TheMemory)
    /\ mem_ops' = mem_ops + 1
    /\ UNCHANGED kvars

AllocatePage ==
    /\ mem_ops < MaxMemOps
    /\ \E pid \in MemPids, vpn \in Vpns, permission \in Permissions :
           LET r == allocate_physical_page(TheMemory, pid, vpn, permission)
           IN /\ SetMemory(r.mem)
              /\ mem_last' = MemHistory("allocate_physical_page", pid, vpn, 0, 0, 0,
                                        permission,
                                        IF r.result = None THEN "None" ELSE "ok",
                                        r.result, TheMemory)
    /\ mem_ops' = mem_ops + 1
    /\ UNCHANGED kvars

FreePage ==
    /\ mem_ops < MaxMemOps
    /\ \E pid \in MemPids, vpn \in Vpns :
           /\ SetMemory(free_physical_page(TheMemory, pid, vpn))
           /\ mem_last' = MemHistory("free_physical_page", pid, vpn, 0, 0, 0, "", "ok",
                                     0, TheMemory)
    /\ mem_ops' = mem_ops + 1
    /\ UNCHANGED kvars

ReadMemory ==
    /\ mem_ops < MaxMemOps
    /\ \E pid \in MemPids, virtual_addr \in VirtualAddrs, length \in Lengths :
           /\ mem_last' = MemHistory("read_memory", pid, 0, virtual_addr, 0, length, "",
                                     "ok",
                                     read_memory(TheMemory, pid, virtual_addr, length),
                                     TheMemory)
    /\ mem_ops' = mem_ops + 1
    /\ UNCHANGED <<physical_pages, free_page_frames, process_vm, kernel_reserved_pages>>
    /\ UNCHANGED kvars

WriteMemory ==
    /\ mem_ops < MaxMemOps
    /\ \E pid \in MemPids, virtual_addr \in VirtualAddrs, data \in Values,
          length \in Lengths :
           LET r == write_memory(TheMemory, pid, virtual_addr, data, length)
           IN /\ SetMemory(r.mem)
              /\ mem_last' = MemHistory("write_memory", pid, 0, virtual_addr, data,
                                        length, "", r.result, 0, TheMemory)
    /\ mem_ops' = mem_ops + 1
    /\ UNCHANGED kvars

MemInit == KernelInit /\ boot = 1 /\ MemoryInit

MemNext ==
    \/ CreateProcessVm
    \/ AllocatePage
    \/ FreePage
    \/ ReadMemory
    \/ WriteMemory

MemSpec == MemInit /\ [][MemNext]_vars

(***************************************************************************)
(* Progress.  The main thread keeps running its loop and a started Timer   *)
(* fires: the main thread and the tick are weakly fair.                    *)
(***************************************************************************)
\* the boot configurations progress is checked from
LiveBoots == {9}

LiveInit == (\E c \in LiveBoots : KernelBoot(c)) /\ MemoryInit

\* the steps of the main thread: at most one is enabled at a time
MainThread ==
    \/ Start
    \/ LoopSchedule
    \/ LoopFetch
    \/ LoopExecute
    \/ LoopAdvance
    \/ LoopComplete

Fairness ==
    /\ WF_vars(MainThread)
    /\ WF_vars(Tick)

LiveSpec == LiveInit /\ [][Next]_vars /\ Fairness

(***************************************************************************)
(* Two processes sharing the Memory: both process spaces exist, and the    *)
(* calls that follow allocate, free, read and write in them.               *)
(***************************************************************************)
\* Memory(...), create_process_vm(1), create_process_vm(2)
TwoSpaces ==
    create_process_vm(create_process_vm(_reserve_kernel_memory(BlankMemory, 1), 1), 2)

IsoInit ==
    /\ KernelInit
    /\ boot = 1
    /\ physical_pages = TwoSpaces.physical_pages
    /\ free_page_frames = TwoSpaces.free_page_frames
    /\ process_vm = TwoSpaces.process_vm
    /\ kernel_reserved_pages = TwoSpaces.kernel_reserved_pages
    /\ mem_ops = 0
    /\ mem_last = MemHistory("init", 0, 0, 0, 0, 0, "", "", 0, BlankMemory)

IsoNext ==
    \/ AllocatePage
    \/ FreePage
    \/ ReadMemory
    \/ WriteMemory

IsoSpec == IsoInit /\ [][IsoNext]_vars

(***************************************************************************)
(* Properties.  `last` names the step that led to the state and the state  *)
(* that step started from, so a state predicate can relate the two.        *)
(***************************************************************************)
Executed == last.op = "Execute"

\* the process that was current when the step began
PreCurrent == last.kernel.current_pcb

PreLive == Range(last.kernel.pcbs)

LivePids == Range(pcbs)

\* the CPU holds what the instruction found: nothing was written
CpuUntouched ==
    /\ registers = last.cpu.registers
    /\ flags = last.cpu.flags
    /\ pc = last.cpu.pc

\* after an exception the CPU holds the replacement's saved context, or,
\* with no replacement, what the faulting instruction found
CpuAfterFault ==
    IF current_pcb # NoPid THEN TheCpu = context[current_pcb] ELSE CpuUntouched

PrivilegedInUserMode ==
    /\ Executed
    /\ last.cpu.cpsr = "user"
    /\ last.instr.mode = "kernel"
    /\ last.instr.opcode # "SYSCALL"

DivByZeroExecuted ==
    /\ Executed
    /\ last.instr.opcode = "DIV"
    /\ ~PrivilegeFault(last.instr, last.cpu.cpsr)
    /\ WellFormed(last.instr, 3, 3)
    /\ _resolve_operand(last.cpu.registers, last.instr.operands[3],
                        last.instr.addressing_modes[3]) = 0

ExceptionHandled == Executed /\ last.exc # "none"

\* C3: handling an exception of any of the three kinds removes exactly one
\* process, the one whose instruction faulted, from the PCB table and the
\* ready queue, leaves every other live PCB in the table with its saved
\* context unchanged, and selects and loads a replacement if one exists.
C3_ExceptionContained ==
    ExceptionHandled =>
        /\ last.exc \in {"privilege_violation", "divide_by_zero", "invalid_instruction"}
        /\ last.process \in PreLive
        /\ LivePids = PreLive \ {last.process}
        /\ last.process \notin Range(ready_queue)
        /\ \A p \in LivePids : context[p] = last.kernel.context[p]
        /\ LivePids # {} => /\ current_pcb \in LivePids
                            /\ TheCpu = context[current_pcb]

QuantumTick == last.op \in {"Start", "Tick"} /\ last.tick % Quantum = 0

\* the quantum-boundary handler ran to its end
QuantumTickHandled == QuantumTick /\ last.exc = "none"

\* the step called select_next_process
SchedulingDecision ==
    \/ QuantumTickHandled
    \/ ExceptionHandled
    \/ last.op = "Schedule"
    \/ last.op = "Complete" /\ last.exc = "none"

\* C4: once a fault path has terminated a process, every clock tick is
\* still handled to completion (no handler raises, on the Timer thread or in
\* the dispatch loop), and a scheduling decision returns a live process
\* whenever one exists.
C4_KernelSurvivesFaults ==
    faulted # {} =>
        /\ timer # "failed"
        /\ last.op = "Tick" => last.exc = "none"
        /\ (SchedulingDecision /\ LivePids # {}) => current_pcb \in LivePids

\* C5: a clock interrupt takes effect only at an instruction boundary:
\* while the dispatch loop holds a fetched instruction that the CPU has not
\* finished, current_pcb is the process the instruction was fetched from and
\* no handler has changed the CPU; an exception the instruction raises
\* terminates the process it was fetched from.
C5_InterruptsAtInstructionBoundaries ==
    /\ loop = "fetched" => /\ current_pcb = process
                           /\ last.op = "Tick" => TheCpu = last.cpu
    /\ (ExceptionHandled /\ last.process \in PreLive) => last.process \notin LivePids

\* C6: while the same two processes are the live ones, the process that is
\* current after a quantum-boundary tick is one of the two and is not the
\* one that was current after the previous quantum-boundary tick.
C6_RoundRobinAlternates ==
    (/\ QuantumTick
     /\ last.mark.tick > 0
     /\ Cardinality(last.mark.live) = 2
     /\ PreLive = last.mark.live
     /\ LivePids = last.mark.live)
        => /\ current_pcb \in LivePids
           /\ last.mark.current \in LivePids
           /\ current_pcb # last.mark.current

\* C7: select_next re-queues a live `current` before it tests the queue for
\* emptiness: called with a live current process it never returns "no
\* process", and with `current` the only live process and the ready queue
\* empty it returns `current`.
C7_RequeueBeforeEmptyTest ==
    (QuantumTickHandled /\ PreCurrent \in PreLive) =>
        /\ current_pcb # NoPid
        /\ (PreLive = {PreCurrent} /\ last.kernel.ready_queue = <<>>)
               => current_pcb = PreCurrent

\* C8: no PCB appears more than once in the ready queue.
C8_NoDuplicateInReadyQueue ==
    \A i, j \in DOMAIN ready_queue : ready_queue[i] = ready_queue[j] => i = j

\* the resident process was current with the queue empty, so that
\* select_next_process queued it twice (as the fallback and as `current`)
\* before popping one of the two entries
C8_Witness ==
    /\ QuantumTickHandled
    /\ PreCurrent = ResidentPid
    /\ last.kernel.ready_queue = <<>>
    /\ ready_queue = <<ResidentPid>>
    /\ current_pcb = ResidentPid

NonQuantumTick == last.op \in {"Start", "Tick"} /\ last.tick % Quantum # 0

\* C9: a tick whose number is not a multiple of the quantum, taken while a
\* process is current, leaves current_pcb as it was, leaves the CPU's
\* registers, flags, pc and mode at the interrupted values, and makes no
\* scheduling decision (the ready queue and the PCB states are untouched).
C9_NonQuantumTickIsNoOp ==
    (NonQuantumTick /\ PreCurrent # NoPid) =>
        /\ current_pcb = PreCurrent
        /\ TheCpu = last.cpu
        /\ ready_queue = last.kernel.ready_queue
        /\ state = last.kernel.state

\* the boot configuration of the end-to-end scenario: the resident log
\* process (pid 100, always_loop) and one user process MOV R0,10; DIV R1,R0,0
EndToEnd == boot = 2

\* C10: in the end-to-end scenario the dispatch loop and the tick handler
\* keep running, the DIV raises divide_by_zero and its process leaves the PCB
\* table, and the scheduling decision that follows makes pid 100 current.
C10_EndToEnd ==
    EndToEnd =>
        /\ loop # "failed"
        /\ timer # "failed"
        /\ DivByZeroExecuted => /\ last.exc = "divide_by_zero"
                                /\ 1 \notin LivePids
                                /\ current_pcb = ResidentPid

\* the step was the last statement of execute_instruction
Advanced == last.op = "Advance"

\* C11: an instruction that execute_instruction completes without an
\* exception leaves pc at the value execute_instruction was entered with plus
\* one; an instruction that raises an exception does not advance pc (the pc
\* saved for the process it terminates is the pc the instruction found, and
\* with no replacement loaded the CPU's pc is that pc too).
C11_PcAdvancesByOne ==
    /\ Advanced => pc = entry.pc + 1
    /\ ExceptionHandled =>
           /\ PreCurrent # NoPid => context[PreCurrent].pc = last.cpu.pc
           /\ current_pcb = NoPid => pc = last.cpu.pc

(***************************************************************************)
(* Memory properties, checked under MemSpec.                               *)
(***************************************************************************)
\* the frames some process's page table maps
MappedFrames ==
    UNION { {process_vm[pid].page_table[vpn] : vpn \in DOMAIN process_vm[pid].page_table} :
            pid \in DOMAIN process_vm }

\* C12: the number of free frames plus the number of frames mapped in some
\* page table plus the number of kernel-reserved frames is the total number
\* of frames.
C12_FrameConservation ==
    Len(free_page_frames) + Cardinality(MappedFrames) + Len(kernel_reserved_pages)
        = TotalPages

\* what the page table of the Memory the call was made on says of the
\* address the call named
PreTranslation ==
    translate_virtual_address(mem_last.mem, mem_last.pid, mem_last.virtual_addr)

Written == mem_last.op = "write_memory"

\* C13: a write of n >= 1 bytes of a value 0 <= v < 2^(8n) to an address in
\* a page mapped "rw" reports success, and a read of n bytes at that address
\* made right after it returns v.
C13_WriteReadRoundTrip ==
    (/\ Written
     /\ PreTranslation.permission = "rw"
     /\ mem_last.length >= 1
     /\ mem_last.data >= 0
     /\ mem_last.data < Pow(2, 8 * mem_last.length)) =>
        /\ mem_last.status = "True"
        /\ read_memory(TheMemory, mem_last.pid, mem_last.virtual_addr, mem_last.length)
               = mem_last.data

\* C14: a write to an address in a page mapped "r" or "rx" returns failure
\* and leaves every byte of every frame as it was.
C14_ReadOnlyPagesRefuseWrites ==
    (Written /\ PreTranslation.permission \in {"r", "rx"}) =>
        /\ mem_last.status = "False"
        /\ physical_pages = mem_last.mem.physical_pages

C14_Witness ==
    /\ Written
    /\ PreTranslation.permission = "r"
    /\ mem_last.data = 255
    /\ mem_last.status = "False"

Allocated == mem_last.op = "allocate_physical_page"

\* C15: allocate_physical_page for a pid with no process space, or with no
\* free frame left, returns None and leaves the free list, the frames and
\* every page table and permission map as they were.
C15_FailedAllocationChangesNothing ==
    (Allocated /\ (\/ mem_last.pid \notin DOMAIN mem_last.mem.process_vm
                   \/ mem_last.mem.free_page_frames = <<>>)) =>
        /\ mem_last.status = "None"
        /\ TheMemory = mem_last.mem

C15_Witness ==
    /\ Allocated
    /\ mem_last.pid \in DOMAIN mem_last.mem.process_vm
    /\ mem_last.mem.free_page_frames = <<>>
    /\ mem_last.status = "None"

\* C16: read_memory and write_memory never raise: a read returns an integer
\* and a write returns True or False.
C16_AccessNeverRaises ==
    /\ mem_last.op = "read_memory" => mem_last.status = "ok"
    /\ Written => mem_last.status \in {"True", "False"}

(***************************************************************************)
(* System calls and GET_PROCESS_COUNT, checked under Spec.                 *)
(***************************************************************************)
\* execute_instruction was given a SYSCALL of two operands in user mode
SyscallExecuted ==
    /\ Executed
    /\ last.instr.opcode = "SYSCALL"
    /\ Len(last.instr.operands) = 2
    /\ last.cpu.cpsr = "user"
    /\ PreCurrent # NoPid

\* the SYSCALL completed as a call: no exception, the caller still current
\* and live, the CPU back in user mode with only the result register
\* written, and pc left to the final increment
SyscallReturned(value) ==
    /\ last.exc = "none"
    /\ current_pcb = PreCurrent
    /\ PreCurrent \in LivePids
    /\ cpsr = "user"
    /\ registers = RegSet(last.cpu.registers, last.instr.operands[2], value)
    /\ flags = last.cpu.flags
    /\ pc = last.cpu.pc

\* C17: a SYSCALL with a known name executed in user mode runs
\* Kernel.handle_syscall, writes what the handler returned into the register
\* named by the second operand, leaves the CPU in user mode and does not go
\* through the exception path or terminate the caller.
C17_KnownSyscallReturns ==
    (SyscallExecuted /\ last.instr.operands[1] \in SyscallNames) =>
        \E value \in -1..Len(last.kernel.pcbs) : SyscallReturned(value)

\* C18: a SYSCALL with a name the syscall table does not hold writes the
\* error code -1 into the result register; no exception is raised and no
\* process is terminated.
C18_UnknownSyscallReturnsError ==
    (SyscallExecuted /\ last.instr.operands[1] \notin SyscallNames) =>
        /\ SyscallReturned(ErrorCode)
        /\ LivePids = PreLive

\* a user process is about to make the get_process_count call: its SYSCALL
\* is fetched and it is still the current process
CallingProcessCount ==
    /\ loop = "fetched"
    /\ instr.opcode = "SYSCALL"
    /\ instr.operands[1] = "get_process_count"
    /\ current_pcb = process
    /\ current_pcb \in LivePids
    /\ procs[current_pcb].type = "user"

\* C19: _sys_get_process_count, called for the current user process,
\* returns the number of live user processes when that process has
\* privilege 0 in the privilege table and the number of all live processes
\* otherwise.
C19_ProcessCountByPrivilege ==
    CallingProcessCount =>
        _sys_get_process_count(TheKernel, Snapshot(TheCpu)) =
            Returns(IF UserPrivileges[current_pcb] = 0
                    THEN Len(UserPidsOf(pcbs)) ELSE Len(pcbs))

\* C20: GET_PROCESS_COUNT executed while the CPU is in user mode raises
\* privilege_violation and writes no register, whatever level the
\* instruction declares.
C20_ProcessCountIsKernelOnly ==
    (Executed /\ last.instr.opcode = "GET_PROCESS_COUNT" /\ last.cpu.cpsr = "user") =>
        /\ last.exc = "privilege_violation"
        /\ PreCurrent # NoPid => context[PreCurrent].registers = last.cpu.registers

\* a well-formed JMP was handed to execute_instruction: one target operand
JmpExecuted ==
    /\ Executed
    /\ last.instr.opcode = "JMP"
    /\ Len(last.instr.operands) = 1

\* C21: executing a well-formed JMP (one target operand) raises no
\* exception and does not terminate the executing process, and the
\* instruction leaves pc at the target when the condition flag it names
\* holds and at the next instruction otherwise.
C21_JmpSetsPc ==
    /\ JmpExecuted =>
          /\ last.exc = "none"
          /\ LivePids = PreLive
    /\ (Advanced /\ last.instr.opcode = "JMP" /\ Len(last.instr.operands) = 1) =>
          pc \in {last.instr.operands[1], entry.pc + 1}

(***************************************************************************)
(* Termination and shutdown, checked under SysSpec.                        *)
(***************************************************************************)
\* the frames the page table of pid maps in Memory M
FramesOf(M, pid) ==
    {M.process_vm[pid].page_table[vpn] : vpn \in DOMAIN M.process_vm[pid].page_table}

\* the processes that were booted with a process space and have left the
\* PCB table since
TerminatedPids == DOMAIN process_vm \ LivePids

\* C22: once a process is terminated (by a CPU exception or by completing),
\* its process space holds no virtual-page mapping and no permission entry,
\* and every frame it held is in the free list.
C22_TerminationReclaimsMemory ==
    \A pid \in TerminatedPids :
        /\ process_vm[pid].page_table = EmptyMap
        /\ process_vm[pid].permissions = EmptyMap
        /\ FramesOf(SysMemory(boot), pid) \subseteq Range(free_page_frames)

\* C23: once the kernel is stopped and the dispatch loop has halted, the
\* PCB table and the ready queue are empty and no frame is mapped to a
\* process any more.
C23_StopTerminatesAll ==
    loop = "halted" =>
        /\ pcbs = <<>>
        /\ ready_queue = <<>>
        /\ MappedFrames = {}

\* C24: after ClockDevice.stop() has returned, at most one interrupt, the
\* one in flight when stop() ran, is still delivered: ticks and the tick
\* the CPU received last are the value at stop() or that value plus one,
\* and once the in-flight interrupt is delivered none is in flight.
C24_StopEndsTicks ==
    stop_event =>
        /\ ticks \in {stop_ticks, stop_ticks + 1}
        /\ system_time \in {stop_ticks, stop_ticks + 1}
        /\ ticks = stop_ticks + 1 => timer # "inflight"

\* stop() ran with a Timer thread past the guard: its interrupt was
\* delivered, and the Timer it started returned at the guard
C24_Witness ==
    /\ stop_event
    /\ ticks = stop_ticks + 1
    /\ last.op = "Tick"
    /\ timer = "none"

(***************************************************************************)
(* Scheduler state, checked under Spec.                                    *)
(***************************************************************************)
\* the dispatch loop is between two instructions
AtInstructionBoundary == loop = "top"

\* C25: at an instruction boundary every live PCB whose state is "running"
\* is the current PCB, so at most one PCB is running; this holds also after
\* a quantum-boundary tick on which select_next_process returned no process.
C25_RunningIsCurrent ==
    AtInstructionBoundary =>
        \A pid \in LivePids : state[pid] = "running" => pid = current_pcb

\* C26: the current PCB is never in the ready queue, and every PCB in the
\* ready queue has state "ready".
C26_CurrentNotQueued ==
    /\ current_pcb # NoPid => current_pcb \notin Range(ready_queue)
    /\ \A i \in DOMAIN ready_queue : state[ready_queue[i]] = "ready"

(***************************************************************************)
(* Frame exclusivity, checked under IsoSpec.                               *)
(***************************************************************************)
\* the (pid, vpn) pairs some page table maps
MappedPairs ==
    UNION { {<<pid, vpn>> : vpn \in DOMAIN process_vm[pid].page_table} :
            pid \in DOMAIN process_vm }

\* C27: no frame is in two places: none is both free and mapped, none is
\* mapped by two (pid, vpn) pairs, none is twice in the free list, and no
\* kernel-reserved frame is free or mapped; so a write by one process leaves
\* what every read by another process returns as it was.
C27_FrameExclusivity ==
    /\ Range(free_page_frames) \cap MappedFrames = {}
    /\ \A a, b \in MappedPairs :
           a # b => process_vm[a[1]].page_table[a[2]] # process_vm[b[1]].page_table[b[2]]
    /\ \A i, j \in DOMAIN free_page_frames :
           i # j => free_page_frames[i] # free_page_frames[j]
    /\ Range(kernel_reserved_pages) \cap (Range(free_page_frames) \cup MappedFrames) = {}
    /\ Written =>
           \A q \in MemPids \ {mem_last.pid}, a \in VirtualAddrs, n \in Lengths :
               read_memory(TheMemory, q, a, n) = read_memory(mem_last.mem, q, a, n)

\* a process wrote successfully to its page while the page of another
\* process holds a value that process wrote before
C27_Witness ==
    /\ Written
    /\ mem_last.status = "True"
    /\ \E q \in MemPids \ {mem_last.pid} :
           /\ process_vm[q].page_table # EmptyMap
           /\ read_memory(TheMemory, q, 0, 1) = 255

(***************************************************************************)
(* Kernel processes, checked under Spec.                                   *)
(***************************************************************************)
Fetched == last.op = "Fetch"

\* the strategies under which a kernel process without a task idles
IdleStrategies == {"always_loop", "on_demand"}

\* the step executed the idle instruction of a task-less kernel process
IdleExecuted ==
    /\ Executed
    /\ last.instr.opcode \in {IdleInstruction(strategy).opcode : strategy \in IdleStrategies}

\* C28: a kernel process with strategy always_loop or on_demand and no task
\* stays alive: its fetch yields the idle instruction (a fetch yields no
\* instruction only under strategy once), executing the idle instruction
\* raises no exception, and the process stays in the PCB table.
C28_IdleKernelProcessStaysAlive ==
    /\ (/\ Fetched
        /\ procs[process].type = "kernel"
        /\ last.exc = "none"
        /\ current_task[process] = "none") =>
           (loop = "complete" <=> procs[process].loop_strategy = "once")
    /\ IdleExecuted =>
           /\ last.exc = "none"
           /\ last.process \in LivePids

\* C29: get_next_instruction of a kernel process with a task assigned and
\* its internal pc below the task's length raises nothing, returns the
\* task's instruction at that pc and increases the internal pc by one.
C29_TaskFetchYieldsInstruction ==
    (/\ Fetched
     /\ procs[process].type = "kernel"
     /\ current_task[process] # "none"
     /\ Len(procs[process].task_templates[current_task[process]]) > 0) =>
        /\ last.exc = "none"
        /\ current_pc[process] \in
               1..Len(procs[process].task_templates[current_task[process]])
        /\ instr.opcode =
               procs[process].task_templates[current_task[process]][current_pc[process]].opcode
        /\ Len(instr.operands) =
               Len(procs[process].task_templates[current_task[process]][current_pc[process]].operands)

\* get_next_instruction was called on a kernel process whose internal pc
\* had reached the length of its task
EndOfTaskFetched ==
    /\ Fetched
    /\ procs[process].type = "kernel"
    /\ last.tasks.current_task[process] # "none"
    /\ last.tasks.current_pc[process] >=
           Len(procs[process].task_templates[last.tasks.current_task[process]])

\* C30: get_next_instruction with the internal pc at the task's length:
\* under always_loop the call raises nothing and keeps the task with the
\* internal pc counted from 0 again; under any other strategy it clears the
\* task and returns what the no-task branch returns.
C30_EndOfTask ==
    EndOfTaskFetched =>
        IF procs[process].loop_strategy = "always_loop"
        THEN /\ last.exc = "none"
             /\ current_task[process] = last.tasks.current_task[process]
             /\ current_pc[process] <= 1
        ELSE /\ last.exc = "none"
             /\ current_task[process] = "none"
             /\ instr.opcode = NoTaskFetch(procs[process], 0).instr.opcode

\* a tick handler ran to its end on a tick at which it wakes the resident
\* process, which was live
LogWakeDelivered ==
    /\ last.op \in {"Start", "Tick"}
    /\ last.exc = "none"
    /\ last.tick % LogPeriod = 0
    /\ ResidentPid \in PreLive
    /\ last.tick % MonitorPeriod # 0 \/ MonitorPid \in PreLive

\* the fetch that follows a wake-up on a registered task: the task is
\* assigned and the internal pc is 0
FirstFetchOfTask ==
    /\ Fetched
    /\ procs[process].type = "kernel"
    /\ last.tasks.current_task[process] # "none"
    /\ last.tasks.current_pc[process] = 0
    /\ Len(procs[process].task_templates[last.tasks.current_task[process]]) > 0

\* C31: wake_up(task_id) with an unregistered task_id leaves the current
\* task and the internal pc as they were; with a registered task_id it sets
\* the current task to task_id and the internal pc to 0, whatever task was
\* under way; the fetch that follows returns the first instruction of the
\* task.
C31_WakeUp ==
    /\ LogWakeDelivered =>
           IF "sys_log" \in DOMAIN procs[ResidentPid].task_templates
           THEN /\ current_task[ResidentPid] = "sys_log"
                /\ current_pc[ResidentPid] = 0
           ELSE /\ current_task[ResidentPid] = last.tasks.current_task[ResidentPid]
                /\ current_pc[ResidentPid] = last.tasks.current_pc[ResidentPid]
    /\ FirstFetchOfTask =>
           /\ last.exc = "none"
           /\ instr.opcode =
                  procs[process].task_templates[last.tasks.current_task[process]][1].opcode

(***************************************************************************)
(* Completion, context switches and modes, checked under Spec.             *)
(***************************************************************************)
Completing == last.op = "Complete"

\* C32: a fetch from a user process with the CPU's pc at or past the end of
\* its instruction sequence signals completion, and the dispatch loop then
\* terminates exactly that process (it leaves the PCB table and the ready
\* queue) without an exception and loads the replacement it selected, if
\* any.
C32_CompletionTerminatesTheProcess ==
    /\ (/\ Fetched
        /\ procs[process].type = "user"
        /\ last.cpu.pc >= Len(procs[process].instructions)) => loop = "complete"
    /\ Completing =>
           /\ last.exc = "none"
           /\ PreLive \ LivePids = {last.process}
           /\ last.process \notin Range(ready_queue)
           /\ current_pcb # NoPid => TheCpu = context[current_pcb]

\* the step executed, or advanced pc for, an instruction fetched from a
\* process other than the one that was current, and that one had been
\* interrupted and resumed before
ForeignInstruction ==
    /\ Executed \/ Advanced
    /\ last.exc = "none"
    /\ PreCurrent # NoPid
    /\ last.process # PreCurrent
    /\ last.kernel.time_slice[PreCurrent] > 0

\* C33: a context switch preserves process state: the context saved for
\* the process a quantum-boundary tick interrupts is the CPU state at the
\* interrupt, no step changes the saved context of a process that is not
\* current, a process that is selected gets its saved context loaded, and
\* no instruction of another process writes the CPU state of the process
\* that is loaded.
C33_ContextSwitchPreservesState ==
    /\ (QuantumTickHandled /\ PreCurrent # NoPid /\ PreCurrent \in LivePids) =>
           context[PreCurrent] = Snapshot(last.cpu)
    /\ \A pid \in LivePids : pid # PreCurrent => context[pid] = last.kernel.context[pid]
    /\ (SchedulingDecision /\ current_pcb # NoPid) => TheCpu = context[current_pcb]
    /\ ForeignInstruction => TheCpu = last.cpu

(***************************************************************************)
(* Progress, checked under LiveSpec.                                       *)
(***************************************************************************)
\* the user processes whose instruction sequence is finite and raises no
\* exception when it runs alone
FaultFreePids ==
    {pid \in PIDS : procs[pid].type = "user" /\ procs[pid].instructions = PlainProgram}

\* C34: no starvation: as long as the dispatch loop keeps running, every
\* live PCB in the ready queue eventually becomes current (or leaves the PCB
\* table), and every live user process with a finite fault-free instruction
\* sequence eventually completes and leaves the PCB table.
C34_NoStarvation ==
    \A pid \in PIDS :
        /\ (pid \in LivePids /\ pid \in Range(ready_queue)) ~>
               (current_pcb = pid \/ pid \notin LivePids \/ loop = "failed")
        /\ (pid \in LivePids /\ pid \in FaultFreePids) ~>
               (pid \notin LivePids \/ loop = "failed")

\* an interrupt kind Kernel.handle_interrupt has no branch for
UnhandledKind == "io"

\* a user process is current with the CPU in user mode
UserRunning ==
    /\ current_pcb # NoPid
    /\ procs[current_pcb].type = "user"
    /\ cpsr = "user"

\* C35: whenever the dispatch loop executes an instruction of a user
\* process the CPU is in user mode, and an interrupt of a kind the kernel
\* does not handle, delivered while a user process runs in user mode,
\* returns with the CPU in user mode.
C35_UserCodeRunsInUserMode ==
    /\ (Executed /\ procs[last.process].type = "user") => last.cpu.cpsr = "user"
    /\ UserRunning =>
           receive_hardware_interrupt(TheKernel, TheCpu, TheTasks,
                                      UnhandledKind, 0).cpu.cpsr = "user"

\* a SYSCALL was executed with the CPU in kernel mode
KernelModeSyscall ==
    /\ Executed
    /\ last.instr.opcode = "SYSCALL"
    /\ Len(last.instr.operands) = 2
    /\ last.cpu.cpsr = "kernel"

\* C36: an instruction that completes without an exception leaves the CPU
\* mode as it found it; a SYSCALL executed in kernel mode completes and
\* leaves the CPU in kernel mode with its process still live.
C36_InstructionKeepsMode ==
    /\ (Executed /\ last.exc = "none") => cpsr = last.cpu.cpsr
    /\ KernelModeSyscall =>
           /\ last.exc = "none"
           /\ cpsr = "kernel"
           /\ LivePids = PreLive

\* C37: KernelProcess.get_next_instruction always returns, with an
\* instruction or with the termination signal, for every loop strategy and
\* every registered task, a task with an empty instruction list included.
C37_KernelFetchReturns ==
    (Fetched /\ procs[process].type = "kernel") =>
        /\ last.exc = "none"
        /\ loop \in {"fetched", "complete"}

====
